---- MODULE Spec2Model ----
(***************************************************************************)
(* Model of src/src/server.py: the three MCP tool handlers of the Jiminny  *)
(* adapter (list conversations, get transcript, get summary), the helpers  *)
(* they call, and the upstream HTTP API as a nondeterministic responder.   *)
(*                                                                         *)
(* Strings.  A Python str is a sequence of pieces.  A piece is the first   *)
(* `len` characters of either a literal of the source (`lit`) or of an     *)
(* upstream-supplied datum (`id` > 0); `ws` marks a piece made only of     *)
(* whitespace.  The empty str is <<>>.  Lengths are real lengths, so the   *)
(* 25,000 character budget keeps its value.                                *)
(*                                                                         *)
(* JSON.  A parsed body is a record tagged by `ty`: null, bool, num (held  *)
(* in tenths, so that 0.5 is a number between 0 and 1), str, list, dict    *)
(* (a sequence of key/value pairs, in insertion order).                    *)
(***************************************************************************)
EXTENDS Integers, Sequences, FiniteSets, TLC

VARIABLES
    token,            \* os.environ has a non-empty JIMINNY_TOKEN
    tool,             \* the handler invoked: "none", "list", "transcript", "summary"
    pc,               \* the handler's position
    inflight,         \* the requests awaiting their response
    events,           \* the requests sent and the responses received, in order
    result,           \* what the handler handed to the host
    data,             \* local `data` of the handler
    segments,         \* jiminny_get_transcript: local `segments`
    names,            \* jiminny_get_transcript: local `names`
    lookup,           \* how _get_participant_names ended, and on which response
    auto_names,       \* jiminny_get_transcript: local `auto_names`
    speaker_counter,  \* jiminny_get_transcript: local `speaker_counter`
    prev_speaker,     \* jiminny_get_transcript: local `prev_speaker`
    lines,            \* local `lines` of the handler
    idx,              \* jiminny_get_transcript: position of the for loop
    rendered,         \* jiminny_get_transcript: what each rendered segment produced
    section,          \* jiminny_get_summary: the section being assembled (1..3)
    prefix,           \* jiminny_get_summary._try_get: position in path_prefixes
    status,           \* jiminny_get_summary: local `status`
    outcome           \* jiminny_get_summary: how each section's lookup ended

vars == <<token, tool, pc, inflight, events, result, data, segments, names, lookup,
          auto_names, speaker_counter, prev_speaker, lines, idx, rendered,
          section, prefix, status, outcome>>

----------------------------------------------------------------------------
(* Bounds of the model. *)

MaxResults == 2
MaxSegs == 3

----------------------------------------------------------------------------
(* Strings *)

Lit(s) == [lit |-> s, id |-> 0, len |-> Len(s), ws |-> FALSE]
Dat(i, n) == [lit |-> "", id |-> i, len |-> n, ws |-> FALSE]
Spaces(n) == [lit |-> " ", id |-> 0, len |-> n, ws |-> TRUE]
NL == [lit |-> "\n", id |-> 0, len |-> 1, ws |-> TRUE]
S(s) == IF s = "" THEN <<>> ELSE <<Lit(s)>>

RECURSIVE StrLen(_)
StrLen(s) == IF s = <<>> THEN 0 ELSE Head(s).len + StrLen(Tail(s))

\* s[:n]
RECURSIVE Take(_, _)
Take(s, n) ==
    IF s = <<>> \/ n <= 0 THEN <<>>
    ELSE IF Head(s).len <= n THEN <<Head(s)>> \o Take(Tail(s), n - Head(s).len)
    ELSE <<[Head(s) EXCEPT !.len = n]>>

\* sep.join(ls)
RECURSIVE Join(_, _)
Join(ls, sep) ==
    IF ls = <<>> THEN <<>>
    ELSE IF Len(ls) = 1 THEN ls[1]
    ELSE ls[1] \o sep \o Join(Tail(ls), sep)

\* s.strip()
RECURSIVE LStrip(_)
LStrip(s) == IF s # <<>> /\ Head(s).ws THEN LStrip(Tail(s)) ELSE s
RECURSIVE RStrip(_)
RStrip(s) ==
    IF s # <<>> /\ s[Len(s)].ws THEN RStrip(SubSeq(s, 1, Len(s) - 1)) ELSE s
Strip(s) == RStrip(LStrip(s))

\* s.split("\n")
RECURSIVE Split(_, _)
Split(s, cur) ==
    IF s = <<>> THEN <<cur>>
    ELSE IF Head(s) = NL THEN <<cur>> \o Split(Tail(s), <<>>)
    ELSE Split(Tail(s), Append(cur, Head(s)))

\* s.lstrip("- ") when m = "- ", s.lstrip("* ") when m = "* ": a run of the marker's
\* characters is held as one piece, the literal m.
RECURSIVE LStripMarker(_, _)
LStripMarker(s, m) ==
    IF s # <<>> /\ (Head(s).lit = m \/ Head(s).lit = " ") /\ Head(s).id = 0
    THEN LStripMarker(Tail(s), m)
    ELSE s

NumStr(t) ==
    IF t % 10 = 0 THEN S(ToString(t \div 10))
    ELSE S(ToString(t \div 10)) \o S(".") \o S(ToString(t % 10))

----------------------------------------------------------------------------
(* JSON values *)

JNull == [ty |-> "null"]
JBool(b) == [ty |-> "bool", b |-> b]
JNum(t) == [ty |-> "num", t |-> t]
JInt(n) == JNum(10 * n)
JStr(s) == [ty |-> "str", s |-> s]
JList(xs) == [ty |-> "list", xs |-> xs]
JDict(kv) == [ty |-> "dict", kv |-> kv]
KV(k, v) == [k |-> k, v |-> v]

\* bool(v)
Truthy(v) ==
    CASE v.ty = "null" -> FALSE
      [] v.ty = "bool" -> v.b
      [] v.ty = "num" -> v.t # 0
      [] v.ty = "str" -> v.s # <<>>
      [] v.ty = "list" -> v.xs # <<>>
      [] v.ty = "dict" -> v.kv # <<>>

\* a or b
Or(a, b) == IF Truthy(a) THEN a ELSE b

\* k in d
Has(d, k) == \E i \in 1..Len(d.kv) : d.kv[i].k = k

\* d.get(k, default)
Get(d, k, default) ==
    IF Has(d, k)
    THEN d.kv[CHOOSE i \in 1..Len(d.kv) : d.kv[i].k = k].v
    ELSE default

\* type(v).__name__
PyTypeName(v) ==
    CASE v.ty = "null" -> "NoneType"
      [] v.ty = "bool" -> "bool"
      [] v.ty = "num" -> IF v.t % 10 = 0 THEN "int" ELSE "float"
      [] v.ty = "str" -> "str"
      [] v.ty = "list" -> "list"
      [] v.ty = "dict" -> "dict"

\* repr(v), str(v)
RECURSIVE PyRepr(_)
RECURSIVE ReprItems(_)
RECURSIVE ReprPairs(_)
PyRepr(v) ==
    CASE v.ty = "null" -> S("None")
      [] v.ty = "bool" -> S(IF v.b THEN "True" ELSE "False")
      [] v.ty = "num" -> NumStr(v.t)
      [] v.ty = "str" -> S("'") \o v.s \o S("'")
      [] v.ty = "list" -> S("[") \o ReprItems(v.xs) \o S("]")
      [] v.ty = "dict" -> S("{") \o ReprPairs(v.kv) \o S("}")
ReprItems(xs) ==
    IF xs = <<>> THEN <<>>
    ELSE IF Len(xs) = 1 THEN PyRepr(xs[1])
    ELSE PyRepr(xs[1]) \o S(", ") \o ReprItems(Tail(xs))
ReprPairs(kv) ==
    IF kv = <<>> THEN <<>>
    ELSE S("'") \o S(kv[1].k) \o S("': ") \o PyRepr(kv[1].v)
         \o (IF Len(kv) = 1 THEN <<>> ELSE S(", ") \o ReprPairs(Tail(kv)))
PyStr(v) == IF v.ty = "str" THEN v.s ELSE PyRepr(v)

----------------------------------------------------------------------------
(* Exceptions and results of calls that may raise *)

Exc(cls, name, st, msg) == [cls |-> cls, name |-> name, status |-> st, msg |-> msg]
Ok(v) == [ok |-> TRUE, val |-> v]
Raise(e) == [ok |-> FALSE, exc |-> e]

AttributeError(v, attr) ==
    Exc("Exception", "AttributeError", 0,
        S("'") \o S(PyTypeName(v)) \o S("' object has no attribute '") \o S(attr) \o S("'"))

----------------------------------------------------------------------------
(* Constants and shared helpers *)

CHARACTER_LIMIT == 25000

TOKEN_MESSAGE ==
    "JIMINNY_TOKEN environment variable is not set. Get your token from Jiminny browser DevTools: Network tab > any API request > Authorization header (copy the value after 'Bearer ')."

\* The suffix _truncate appends; its dash stands for the source's em dash, one character.
TRUNCATION_SUFFIX == "\n\n... [truncated - response exceeded character limit]"

_get_token ==
    IF ~token
    THEN Raise(Exc("RuntimeError", "RuntimeError", 0, S(TOKEN_MESSAGE)))
    ELSE Ok("token")

_auth_headers == _get_token

\* "JIMINNY_TOKEN" in str(e)
MentionsToken(msg) == \E i \in 1..Len(msg) : msg[i].lit = TOKEN_MESSAGE

\* _handle_error with the 403 branch left out
_handle_error_no_403(e) ==
    IF e.cls = "RuntimeError" /\ MentionsToken(e.msg) THEN e.msg
    ELSE IF e.cls = "HTTPStatusError" THEN
        CASE e.status = 401 ->
               S("Error: Authentication failed (401). Your token may have expired. Go to Jiminny in your browser, open DevTools > Network tab, refresh the page, and copy the new Bearer token.")
          [] e.status = 404 ->
               S("Error: Not found (404). Check that the conversation ID is correct.")
          [] e.status = 429 ->
               S("Error: Rate limit exceeded (429). Wait a moment and try again.")
          [] OTHER ->
               S("Error: Jiminny API returned status ") \o S(ToString(e.status)) \o S(".")
    ELSE IF e.cls = "TimeoutException" THEN S("Error: Request timed out. Try again.")
    ELSE S("Error: ") \o S(e.name) \o S(": ") \o e.msg

_handle_error(e) ==
    IF e.cls = "RuntimeError" /\ MentionsToken(e.msg) THEN e.msg
    ELSE IF e.cls = "HTTPStatusError" THEN
        CASE e.status = 401 ->
               S("Error: Authentication failed (401). Your token may have expired. Go to Jiminny in your browser, open DevTools > Network tab, refresh the page, and copy the new Bearer token.")
          [] e.status = 403 ->
               S("Error: Permission denied (403). You don't have access to this resource.")
          [] e.status = 404 ->
               S("Error: Not found (404). Check that the conversation ID is correct.")
          [] e.status = 429 ->
               S("Error: Rate limit exceeded (429). Wait a moment and try again.")
          [] OTHER ->
               S("Error: Jiminny API returned status ") \o S(ToString(e.status)) \o S(".")
    ELSE IF e.cls = "TimeoutException" THEN S("Error: Request timed out. Try again.")
    ELSE S("Error: ") \o S(e.name) \o S(": ") \o e.msg

_truncate(text) ==
    IF StrLen(text) <= CHARACTER_LIMIT THEN text
    ELSE Take(text, CHARACTER_LIMIT) \o S(TRUNCATION_SUFFIX)

_format_seconds(tenths) ==
    LET whole == tenths \div 10
        mins == whole \div 60
        secs == whole % 60
    IN S(ToString(mins)) \o S(":") \o S(IF secs < 10 THEN "0" ELSE "") \o S(ToString(secs))

----------------------------------------------------------------------------
(* The upstream API: what one GET can come back with *)

HttpResponse(st, parse, body) == [kind |-> "http", status |-> st, parse |-> parse, body |-> body]
TimeoutResponse == [kind |-> "timeout", status |-> 0, parse |-> FALSE, body |-> JNull]
ConnectFailure == [kind |-> "error", status |-> 0, parse |-> FALSE, body |-> JNull]

\* The statuses the upstream answers with besides 200.
ErrorStatuses == {302, 401, 403, 404, 429, 500}

Failures ==
    {HttpResponse(st, FALSE, JNull) : st \in ErrorStatuses}
    \cup {TimeoutResponse, ConnectFailure, HttpResponse(200, FALSE, JNull)}

SeqsUpTo(X, n) == UNION {[1..k -> X] : k \in 0..n}

\* client.get(...), response.raise_for_status(), response.json() of _api_get
_api_get(resp) ==
    IF resp.kind = "timeout"
    THEN Raise(Exc("TimeoutException", "ReadTimeout", 0, S("The read operation timed out")))
    ELSE IF resp.kind = "error"
    THEN Raise(Exc("Exception", "ConnectError", 0, S("All connection attempts failed")))
    ELSE IF resp.status \notin 200..299
    THEN Raise(Exc("HTTPStatusError", "HTTPStatusError", resp.status, S("status error")))
    ELSE IF ~resp.parse
    THEN Raise(Exc("Exception", "JSONDecodeError", 0,
                   S("Expecting value: line 1 column 1 (char 0)")))
    ELSE Ok(resp.body)

\* The log of the traffic: a request sent; a response received, with its status (0
\* when none came), whether its body parsed as JSON and whether the parsed body is truthy.
Send(path) == [ev |-> "send", path |-> path, status |-> 0, parse |-> FALSE, truthy |-> FALSE]
Recv(path, resp) ==
    [ev |-> "recv", path |-> path, status |-> resp.status, parse |-> resp.parse,
     truthy |-> resp.parse /\ Truthy(resp.body)]

NoResult == [kind |-> "none"]
Returned(s) == [kind |-> "return", text |-> s]
Raised(e) == [kind |-> "raise", exc |-> e]

----------------------------------------------------------------------------
(* jiminny_list_conversations *)

\* r.get(k, {}).get("name", "") if isinstance(r.get(k), dict) else ""
NameOf(r, k) ==
    IF Get(r, k, JNull).ty = "dict"
    THEN Get(Get(r, k, JNull), "name", JStr(<<>>))
    ELSE JStr(<<>>)

\* the line f"{label}{v}", appended only if v
Optional(label, v) == IF Truthy(v) THEN <<S(label) \o PyStr(v)>> ELSE <<>>

\* one pass of the loop over results (the quotes around the id stand for the
\* source's backticks, one character each)
ConversationLines(r) ==
    IF r.ty # "dict" THEN Raise(AttributeError(r, "get"))
    ELSE
    LET ast == Get(r, "actualStartTime", JStr(<<>>))
    IN IF Truthy(ast) /\ ast.ty \notin {"str", "list"}
       THEN Raise(Exc("Exception", "TypeError", 0,
                      S("'") \o S(PyTypeName(ast)) \o S("' object is not subscriptable")))
       ELSE
       LET title == Get(r, "title", JStr(S("Untitled")))
           conv_id == Get(r, "id", JStr(<<>>))
           duration == Get(r, "durationForHumans", JStr(<<>>))
           start == IF ~Truthy(ast) THEN JStr(<<>>)
                    ELSE IF ast.ty = "str" THEN JStr(Take(ast.s, 10))
                    ELSE JList(SubSeq(ast.xs, 1, IF Len(ast.xs) < 10 THEN Len(ast.xs) ELSE 10))
           organizer == NameOf(r, "organizer")
           prospect_name == NameOf(r, "prospect")
           category == NameOf(r, "category")
           provider == Get(r, "provider", JStr(<<>>))
           is_summarized == Get(r, "isSummarized", JBool(FALSE))
           has_transcript == Get(r, "hasTranscription", JBool(FALSE))
           st == Get(r, "status", JStr(<<>>))
       IN Ok(<<S("## ") \o PyStr(title)>>
             \o <<S("- **ID**: '") \o PyStr(conv_id) \o S("'")>>
             \o Optional("- **Date**: ", start)
             \o Optional("- **Duration**: ", duration)
             \o Optional("- **Host**: ", organizer)
             \o Optional("- **Contact**: ", prospect_name)
             \o Optional("- **Category**: ", category)
             \o Optional("- **Provider**: ", provider)
             \o <<S("- **Transcript**: ") \o S(IF Truthy(has_transcript) THEN "Yes" ELSE "No")
                  \o S(" | **Summary**: ") \o S(IF Truthy(is_summarized) THEN "Yes" ELSE "No")>>
             \o Optional("- **Status**: ", st)
             \o << <<>> >>)

RECURSIVE ForResults(_, _)
ForResults(rs, acc) ==
    IF rs = <<>> THEN Ok(acc)
    ELSE LET one == ConversationLines(Head(rs))
         IN IF one.ok THEN ForResults(Tail(rs), acc \o one.val) ELSE one

\* The body of _format_conversation_list up to its return: the list `lines`, and
\* whether the early return of the empty case was taken (the dash of the last line
\* stands for the source's em dash, one character).
ConversationListLines(d) ==
    IF d.ty # "dict" THEN Raise(AttributeError(d, "get"))
    ELSE
    LET results == Get(d, "results", JList(<<>>))
        pagination == Get(d, "pagination", JDict(<<>>))
    IN IF pagination.ty # "dict" THEN Raise(AttributeError(pagination, "get"))
       ELSE IF results.ty \in {"null", "bool", "num"}
       THEN Raise(Exc("Exception", "TypeError", 0,
                      S("object of type '") \o S(PyTypeName(results)) \o S("' has no len()")))
       ELSE
       LET n == CASE results.ty = "list" -> Len(results.xs)
                  [] results.ty = "str" -> StrLen(results.s)
                  [] results.ty = "dict" -> Len(results.kv)
           total == Get(pagination, "total", JInt(n))
           current_page == Get(pagination, "current", JInt(1))
           next_page == Get(pagination, "next", JNull)
           head == << S("# Jiminny Conversations (page ") \o PyStr(current_page) \o S(", ")
                      \o PyStr(total) \o S(" total)"),
                      <<>> >>
       IN IF ~Truthy(results)
          THEN Ok([lines |-> Append(head, S("No conversations found.")), empty |-> TRUE])
          ELSE IF results.ty # "list"
          THEN Raise(AttributeError(JStr(<<>>), "get"))
          ELSE
          LET body == ForResults(results.xs, head)
          IN IF ~body.ok THEN body
             ELSE Ok([lines |-> body.val
                                \o (IF Truthy(next_page)
                                    THEN <<S("_More results available - request page ")
                                           \o PyStr(next_page) \o S("._")>>
                                    ELSE <<>>),
                      empty |-> FALSE])

_format_conversation_list(d) ==
    LET built == ConversationListLines(d)
    IN IF ~built.ok THEN built
       ELSE IF built.val.empty THEN Ok(Join(built.val.lines, <<NL>>))
       ELSE Ok(_truncate(Join(built.val.lines, <<NL>>)))

\* The conversation records and pagination objects the upstream is taken to send.
ConvFull ==
    JDict(<<KV("title", JStr(<<Dat(11, 18)>>)), KV("id", JStr(<<Dat(12, 36)>>)),
            KV("durationForHumans", JStr(<<Dat(13, 6)>>)),
            KV("actualStartTime", JStr(<<Dat(14, 25)>>)),
            KV("organizer", JDict(<<KV("name", JStr(<<Dat(15, 8)>>))>>)),
            KV("prospect", JDict(<<KV("name", JStr(<<Dat(16, 9)>>))>>)),
            KV("category", JDict(<<KV("name", JStr(<<Dat(17, 5)>>))>>)),
            KV("provider", JStr(<<Dat(18, 4)>>)),
            KV("isSummarized", JBool(TRUE)), KV("hasTranscription", JBool(TRUE)),
            KV("status", JStr(<<Dat(19, 9)>>))>>)
ConvBare == JDict(<<KV("id", JStr(<<Dat(21, 36)>>)), KV("organizer", JNull)>>)
ConvHuge == JDict(<<KV("title", JStr(<<Dat(22, 26000)>>)), KV("id", JStr(<<Dat(23, 36)>>))>>)
ConvNotADict == JStr(<<Dat(24, 7)>>)
Convs == {ConvFull, ConvBare, ConvHuge, ConvNotADict}

Paginations ==
    { JDict(<<KV("total", JInt(57)), KV("current", JInt(1)), KV("next", JInt(2))>>),
      JDict(<<KV("total", JInt(3)), KV("current", JInt(3)), KV("next", JNull)>>),
      JDict(<<KV("total", JStr(<<Dat(31, 26000)>>)), KV("current", JInt(1))>>),
      JList(<<>>) }

ListBodies ==
    {JList(<<>>)}
    \cup {JDict(<<KV("results", JList(rs)), KV("pagination", p)>>) :
            rs \in SeqsUpTo(Convs, MaxResults), p \in Paginations}
    \cup {JDict(<<KV("results", JList(rs))>>) : rs \in SeqsUpTo(Convs, MaxResults)}

ListResponses == Failures \cup {HttpResponse(200, TRUE, b) : b \in ListBodies}

ListPath == "page/on-demand"

\* line 231, up to the await: the headers are built before the request is sent
ListCall ==
    /\ pc = "list_call"
    /\ IF _auth_headers.ok
       THEN /\ inflight' = inflight \cup {ListPath}
            /\ events' = Append(events, Send(ListPath))
            /\ pc' = "list_wait"
            /\ UNCHANGED result
       ELSE /\ result' = Returned(_handle_error(_auth_headers.exc))
            /\ pc' = "done"
            /\ UNCHANGED <<inflight, events>>
    /\ UNCHANGED <<token, tool, data, segments, names, lookup, auto_names, speaker_counter,
                   prev_speaker, lines, idx, rendered, section, prefix, status, outcome>>

\* lines 231-234, from the response on
ListReturn ==
    /\ pc = "list_wait"
    /\ \E resp \in ListResponses :
        LET got == _api_get(resp)
            built == IF got.ok THEN ConversationListLines(got.val) ELSE got
            text == IF got.ok THEN _format_conversation_list(got.val) ELSE got
        IN /\ inflight' = inflight \ {ListPath}
           /\ events' = Append(events, Recv(ListPath, resp))
           /\ data' = IF got.ok THEN got.val ELSE data
           /\ lines' = IF built.ok THEN built.val.lines ELSE lines
           /\ result' = IF text.ok THEN Returned(text.val)
                        ELSE Returned(_handle_error(text.exc))
    /\ pc' = "done"
    /\ UNCHANGED <<token, tool, segments, names, lookup, auto_names, speaker_counter,
                   prev_speaker, idx, rendered, section, prefix, status, outcome>>

----------------------------------------------------------------------------
(* _get_participant_names *)

\* d[k] = v on a dict held as a sequence of pairs
DictSet(kv, k, v) ==
    IF \E i \in 1..Len(kv) : kv[i].k = k
    THEN [i \in 1..Len(kv) |-> IF kv[i].k = k THEN KV(k, v) ELSE kv[i]]
    ELSE Append(kv, KV(k, v))
DictHas(kv, k) == \E i \in 1..Len(kv) : kv[i].k = k
DictGet(kv, k) == kv[CHOOSE i \in 1..Len(kv) : kv[i].k = k].v

Unhashable(v) == v.ty \in {"list", "dict"}
UnhashableError(v) ==
    Exc("Exception", "TypeError", 0, S("unhashable type: '") \o S(PyTypeName(v)) \o S("'"))

\* lines 79-84: the loop over participants; it stops where mapping[pid] = name raises
RECURSIVE ForParticipants(_, _)
ForParticipants(ps, mapping) ==
    IF ps = <<>> THEN [mapping |-> mapping, raised |-> FALSE]
    ELSE
    LET p == Head(ps)
    IN IF p.ty # "dict" THEN ForParticipants(Tail(ps), mapping)
       ELSE
       LET pid == Or(Get(p, "id", JNull), Or(Get(p, "participantId", JNull), JStr(<<>>)))
           name == Or(Get(p, "name", JNull),
                      Or(Get(p, "displayName", JNull), Or(Get(p, "email", JNull), JStr(<<>>))))
       IN IF Truthy(pid) /\ Truthy(name)
          THEN IF Unhashable(pid) THEN [mapping |-> mapping, raised |-> TRUE]
               ELSE ForParticipants(Tail(ps), DictSet(mapping, pid, name))
          ELSE ForParticipants(Tail(ps), mapping)

\* lines 74-87, given how the call of line 76 ended: the mapping returned, and
\* whether an exception was caught by `except Exception: pass`
_get_participant_names(got) ==
    IF ~got.ok THEN [mapping |-> <<>>, raised |-> TRUE]
    ELSE
    LET d == got.val
    IN IF d.ty \notin {"list", "dict"} THEN [mapping |-> <<>>, raised |-> TRUE]
       ELSE
       LET participants ==
               IF d.ty = "list" THEN d
               ELSE Get(d, "participants", Get(d, "data", Get(d, "results", JList(<<>>))))
       IN IF participants.ty = "list" THEN ForParticipants(participants.xs, <<>>)
          ELSE [mapping |-> <<>>, raised |-> FALSE]

----------------------------------------------------------------------------
(* jiminny_get_transcript *)

\* lines 263-267
SegmentsOf(d) ==
    IF d.ty = "list" THEN d
    ELSE IF d.ty = "dict"
    THEN Or(Get(d, "segments", JNull),
            Or(Get(d, "entries", JNull),
               Or(Get(d, "data", JNull), Or(Get(d, "results", JNull), JList(<<>>)))))
    ELSE JList(<<>>)

\* lines 269-272: the keys of the verbatim transcript, in the order they are tried
DirectKeys == <<"transcript", "text", "content", "transcription">>
HasDirect(d) ==
    \E i \in 1..Len(DirectKeys) : Has(d, DirectKeys[i]) /\ Get(d, DirectKeys[i], JNull).ty = "str"
Direct(d) ==
    Get(d, DirectKeys[CHOOSE i \in 1..Len(DirectKeys) :
                        /\ Has(d, DirectKeys[i]) /\ Get(d, DirectKeys[i], JNull).ty = "str"
                        /\ \A j \in 1..(i - 1) :
                             ~(Has(d, DirectKeys[j]) /\ Get(d, DirectKeys[j], JNull).ty = "str")],
        JNull)

\* lines 263-275: the lines of the early returns, or nothing when the segments are rendered
EarlyTranscript(d) ==
    LET segs == SegmentsOf(d)
    IN IF d.ty = "dict" /\ ~Truthy(segs) /\ HasDirect(d)
       THEN << S("# Transcript") \o <<NL, NL>> \o Direct(d).s >>
       ELSE IF segs.ty # "list" \/ ~Truthy(segs)
       THEN << S("# Transcript") \o <<NL, NL>> \o PyStr(d) >>
       ELSE <<>>

\* float(start), in tenths, for a truthy start
FloatOf(start) ==
    CASE start.ty = "num" -> Ok(start.t)
      [] start.ty = "bool" -> Ok(10)
      [] start.ty = "str" ->
           Raise(Exc("Exception", "ValueError", 0,
                     S("could not convert string to float: ") \o PyRepr(start)))
      [] OTHER ->
           Raise(Exc("Exception", "TypeError", 0,
                     S("float() argument must be a string or a real number, not '")
                     \o S(PyTypeName(start)) \o S("'")))

\* line 305
Timestamp(start) ==
    IF Truthy(start)
    THEN LET f == FloatOf(start) IN IF f.ok THEN Ok(_format_seconds(f.val)) ELSE f
    ELSE Ok(<<>>)

\* Speaker with the label of a new id never stored in auto_names
Speaker_not_stored(pid, nm, st) ==
    IF DictHas(nm, pid)
    THEN [speaker |-> DictGet(nm, pid), auto_names |-> st.auto_names,
          speaker_counter |-> st.speaker_counter]
    ELSE IF DictHas(st.auto_names, pid)
    THEN [speaker |-> DictGet(st.auto_names, pid), auto_names |-> st.auto_names,
          speaker_counter |-> st.speaker_counter]
    ELSE [speaker |-> JStr(S("Speaker ") \o S(ToString(st.speaker_counter + 1))),
          auto_names |-> st.auto_names,
          speaker_counter |-> st.speaker_counter + 1]

\* lines 296-303: the speaker of pid, and the auto-label state after it
Speaker(pid, nm, st) ==
    IF DictHas(nm, pid)
    THEN [speaker |-> DictGet(nm, pid), auto_names |-> st.auto_names,
          speaker_counter |-> st.speaker_counter]
    ELSE IF DictHas(st.auto_names, pid)
    THEN [speaker |-> DictGet(st.auto_names, pid), auto_names |-> st.auto_names,
          speaker_counter |-> st.speaker_counter]
    ELSE LET label == JStr(S("Speaker ") \o S(ToString(st.speaker_counter + 1)))
         IN [speaker |-> label, auto_names |-> DictSet(st.auto_names, pid, label),
             speaker_counter |-> st.speaker_counter + 1]

\* line 308
HeaderLine(speaker, timestamp, text) ==
    <<NL>> \o S("**") \o PyStr(speaker) \o S("** [") \o timestamp \o S("]:") \o <<NL>> \o text

\* SegmentLine with the header repeated for every segment
SegmentLine_always_header(speaker, prev, timestamp, text) ==
    <<NL>> \o S("**") \o PyStr(speaker) \o S("** [") \o timestamp \o S("]:") \o <<NL>> \o text

\* lines 307-311: the line appended for a segment
SegmentLine(speaker, prev, timestamp, text) ==
    IF speaker # prev THEN HeaderLine(speaker, timestamp, text) ELSE text

\* lines 285-311: one pass of the loop, on the loop's state st
RenderSegment(seg, nm, st) ==
    IF seg.ty # "dict" THEN Ok(st)
    ELSE
    LET text == Or(Get(seg, "transcript", JNull),
                   Or(Get(seg, "text", JNull), Or(Get(seg, "content", JNull), JStr(<<>>))))
    IN IF text.ty # "str" THEN Raise(AttributeError(text, "strip"))
       ELSE IF Strip(text.s) = <<>> THEN Ok(st)
       ELSE
       LET pid == Or(Get(seg, "participantId", JNull),
                     Or(Get(seg, "speaker", JNull), JStr(S("unknown"))))
           start == Or(Get(seg, "startsAt", JNull),
                       Or(Get(seg, "startTime", JNull), Or(Get(seg, "start", JNull), JInt(0))))
       IN IF Unhashable(pid) THEN Raise(UnhashableError(pid))
          ELSE
          LET sp == Speaker(pid, nm, st)
              ts == Timestamp(start)
          IN IF ~ts.ok THEN ts
             ELSE Ok([auto_names |-> sp.auto_names,
                      speaker_counter |-> sp.speaker_counter,
                      prev_speaker |-> sp.speaker,
                      lines |-> Append(st.lines,
                                       SegmentLine(sp.speaker, st.prev_speaker, ts.val, text.s)),
                      rendered |-> Append(st.rendered,
                                          [pid |-> pid, speaker |-> sp.speaker, start |-> start,
                                           text |-> text.s])])

\* lines.insert(2, x)
Insert2(ls, x) == SubSeq(ls, 1, 2) \o <<x>> \o SubSeq(ls, 3, Len(ls))

RECURSIVE Values(_)
Values(kv) == IF kv = <<>> THEN <<>> ELSE <<Head(kv).v>> \o Values(Tail(kv))
RECURSIVE StrsOf(_)
StrsOf(vs) == IF vs = <<>> THEN <<>> ELSE <<Head(vs).s>> \o StrsOf(Tail(vs))

\* lines 313-316: the list `lines` after the participants line is inserted
WithParticipants(ls, nm, auto) ==
    IF nm # <<>>
    THEN IF \E i \in 1..Len(nm) : nm[i].v.ty # "str"
         THEN Raise(Exc("Exception", "TypeError", 0,
                        S("sequence item 0: expected str instance")))
         ELSE Ok(Insert2(ls, S("_Participants: ") \o Join(StrsOf(Values(nm)), S(", "))
                             \o S("_") \o <<NL>>))
    ELSE IF auto # <<>>
    THEN Ok(Insert2(ls, S("_Note: ") \o S(ToString(Len(auto)))
                        \o S(" speakers detected (names could not be resolved)_") \o <<NL>>))
    ELSE Ok(ls)

\* The ids, names and segments the upstream is taken to send.
PidA == JStr(<<Dat(1, 36)>>)
PidB == JStr(<<Dat(2, 36)>>)
PidC == JStr(<<Dat(3, 36)>>)
Alice == JStr(<<Dat(5, 5)>>)
Bob == JStr(<<Dat(6, 3)>>)

SegA0 == JDict(<<KV("participantId", PidA), KV("transcript", JStr(<<Dat(41, 2)>>)),
                 KV("startsAt", JInt(0))>>)
SegA1 == JDict(<<KV("participantId", PidA), KV("text", JStr(<<Dat(42, 5)>>)),
                 KV("startsAt", JNum(755))>>)
SegB == JDict(<<KV("speaker", PidB), KV("content", JStr(<<Dat(43, 13000)>>)),
                KV("startTime", JInt(3725))>>)
SegBlank == JDict(<<KV("participantId", PidC), KV("transcript", JStr(<<Spaces(2)>>)),
                    KV("startsAt", JInt(9))>>)
SegAnon == JDict(<<KV("transcript", JStr(<<Dat(44, 3)>>)), KV("start", JNum(5))>>)
SegBadStart == JDict(<<KV("participantId", PidC), KV("text", JStr(<<Dat(45, 4)>>)),
                       KV("start", JStr(<<Dat(46, 26000)>>))>>)
SegNotADict == JStr(<<Dat(47, 4)>>)
Segs == {SegA0, SegA1, SegB, SegBlank, SegAnon, SegBadStart}

TranscriptionBodies ==
    {JList(s) : s \in SeqsUpTo(Segs, MaxSegs)}
    \cup { JList(<<SegA0, SegA1, SegB, SegA1>>),
           JDict(<<KV("entries", JList(<<SegA0, SegNotADict, SegB>>))>>),
           JDict(<<KV("segments", JList(<<>>)), KV("text", JStr(<<Dat(61, 26000)>>))>>),
           JDict(<<KV("content", JInt(7)), KV("transcription", JStr(<<Dat(62, 40)>>))>>),
           JDict(<<KV("segments", JStr(<<Dat(63, 5)>>))>>),
           JDict(<<KV("message", JStr(<<Dat(64, 26000)>>))>>),
           JNull }

TranscriptionResponses == Failures \cup {HttpResponse(200, TRUE, b) : b \in TranscriptionBodies}

PartA == JDict(<<KV("id", PidA), KV("name", Alice)>>)
PartB == JDict(<<KV("participantId", PidB), KV("email", Bob)>>)
PartUnhashable == JDict(<<KV("id", JList(<<JInt(1)>>)), KV("name", Bob)>>)
PartNoName == JDict(<<KV("id", PidC)>>)

ParticipantBodies ==
    { JList(<<>>),
      JList(<<PartA>>),
      JDict(<<KV("participants", JList(<<PartA, PartB>>))>>),
      JList(<<PartA, PartUnhashable, PartB>>),
      JList(<<PartUnhashable, PartA>>),
      JDict(<<KV("data", JList(<<PartNoName, JStr(<<Dat(7, 3)>>)>>))>>),
      JStr(<<Dat(8, 9)>>) }

ParticipantResponses ==
    {HttpResponse(404, FALSE, JNull), HttpResponse(500, FALSE, JNull), TimeoutResponse,
     HttpResponse(200, FALSE, JNull)}
    \cup {HttpResponse(200, TRUE, b) : b \in ParticipantBodies}

TranscriptionPath == "activity/{cid}/transcription"
ParticipantsPath == "activity/{cid}/participants"

\* line 261, up to the await
TranscriptCall ==
    /\ pc = "transcript_call"
    /\ IF _auth_headers.ok
       THEN /\ inflight' = inflight \cup {TranscriptionPath}
            /\ events' = Append(events, Send(TranscriptionPath))
            /\ pc' = "transcript_wait"
            /\ UNCHANGED result
       ELSE /\ result' = Returned(_handle_error(_auth_headers.exc))
            /\ pc' = "done"
            /\ UNCHANGED <<inflight, events>>
    /\ UNCHANGED <<token, tool, data, segments, names, lookup, auto_names, speaker_counter,
                   prev_speaker, lines, idx, rendered, section, prefix, status, outcome>>

\* lines 261-275, from the response on
TranscriptRecv ==
    /\ pc = "transcript_wait"
    /\ \E resp \in TranscriptionResponses :
        LET got == _api_get(resp)
        IN /\ inflight' = inflight \ {TranscriptionPath}
           /\ events' = Append(events, Recv(TranscriptionPath, resp))
           /\ IF ~got.ok
              THEN /\ result' = Returned(_handle_error(got.exc))
                   /\ pc' = "done"
                   /\ UNCHANGED <<data, segments, lines>>
              ELSE /\ data' = got.val
                   /\ segments' = SegmentsOf(got.val)
                   /\ lines' = EarlyTranscript(got.val)
                   /\ IF EarlyTranscript(got.val) # <<>>
                      THEN /\ result' = Returned(_truncate(EarlyTranscript(got.val)[1]))
                           /\ pc' = "done"
                      ELSE /\ pc' = "names_call"
                           /\ UNCHANGED result
    /\ UNCHANGED <<token, tool, names, lookup, auto_names, speaker_counter,
                   prev_speaker, idx, rendered, section, prefix, status, outcome>>

\* CanSendParticipants with the lookup started beside the transcription request
CanSendParticipants_concurrent == pc \in {"names_call", "transcript_wait"}

\* May the participants request be sent?
CanSendParticipants == pc = "names_call"

\* lines 279-283
LoopInit ==
    /\ speaker_counter' = 0
    /\ auto_names' = <<>>
    /\ lines' = <<S("# Transcript"), <<>> >>
    /\ prev_speaker' = JNull
    /\ idx' = 0
    /\ pc' = "render"

\* lines 277 and 76, up to the await
NamesCall ==
    /\ CanSendParticipants
    /\ IF _auth_headers.ok
       THEN /\ inflight' = inflight \cup {ParticipantsPath}
            /\ events' = Append(events, Send(ParticipantsPath))
            /\ pc' = "names_wait"
            /\ UNCHANGED <<names, lookup, speaker_counter, auto_names, lines,
                           prev_speaker, idx>>
       ELSE /\ names' = _get_participant_names(_auth_headers).mapping
            /\ lookup' = [state |-> "raised", resp |-> ConnectFailure]
            /\ LoopInit
            /\ UNCHANGED <<inflight, events>>
    /\ UNCHANGED <<token, tool, result, data, segments, rendered, section, prefix,
                   status, outcome>>

\* NamesRecv with no try around the call of line 76: its exception reaches the
\* handler's own except
NamesRecv_unguarded ==
    /\ pc = "names_wait"
    /\ \E resp \in ParticipantResponses :
        LET got == _get_participant_names(_api_get(resp))
        IN /\ inflight' = inflight \ {ParticipantsPath}
           /\ events' = Append(events, Recv(ParticipantsPath, resp))
           /\ names' = got.mapping
           /\ lookup' = [state |-> IF got.raised THEN "raised" ELSE "returned", resp |-> resp]
           /\ IF _api_get(resp).ok
              THEN /\ LoopInit
                   /\ UNCHANGED result
              ELSE /\ result' = Returned(_handle_error(_api_get(resp).exc))
                   /\ pc' = "done"
                   /\ UNCHANGED <<speaker_counter, auto_names, lines, prev_speaker, idx>>
    /\ UNCHANGED <<token, tool, data, segments, rendered, section, prefix, status, outcome>>

\* lines 76-87 from the response on, and lines 279-283
NamesRecv ==
    /\ pc = "names_wait"
    /\ \E resp \in ParticipantResponses :
        LET got == _get_participant_names(_api_get(resp))
        IN /\ inflight' = inflight \ {ParticipantsPath}
           /\ events' = Append(events, Recv(ParticipantsPath, resp))
           /\ names' = got.mapping
           /\ lookup' = [state |-> IF got.raised THEN "raised" ELSE "returned", resp |-> resp]
    /\ LoopInit
    /\ UNCHANGED <<token, tool, result, data, segments, rendered, section, prefix,
                   status, outcome>>

LoopState ==
    [auto_names |-> auto_names, speaker_counter |-> speaker_counter,
     prev_speaker |-> prev_speaker, lines |-> lines, rendered |-> rendered]

\* lines 285-311: one pass of the loop
RenderStep ==
    /\ pc = "render"
    /\ idx < Len(segments.xs)
    /\ LET step == RenderSegment(segments.xs[idx + 1], names, LoopState)
       IN IF step.ok
          THEN /\ auto_names' = step.val.auto_names
               /\ speaker_counter' = step.val.speaker_counter
               /\ prev_speaker' = step.val.prev_speaker
               /\ lines' = step.val.lines
               /\ rendered' = step.val.rendered
               /\ idx' = idx + 1
               /\ UNCHANGED <<result, pc>>
          ELSE /\ result' = Returned(_handle_error(step.exc))
               /\ pc' = "done"
               /\ UNCHANGED <<auto_names, speaker_counter, prev_speaker, lines, rendered, idx>>
    /\ UNCHANGED <<token, tool, inflight, events, data, segments, names, lookup,
                   section, prefix, status, outcome>>

\* lines 313-321
TranscriptReturn ==
    /\ pc = "render"
    /\ idx = Len(segments.xs)
    /\ LET final == WithParticipants(lines, names, auto_names)
       IN IF final.ok
          THEN /\ lines' = final.val
               /\ result' = Returned(_truncate(Join(final.val, <<NL>>)))
          ELSE /\ result' = Returned(_handle_error(final.exc))
               /\ UNCHANGED lines
    /\ pc' = "done"
    /\ UNCHANGED <<token, tool, inflight, events, data, segments, names, lookup, auto_names,
                   speaker_counter, prev_speaker, idx, rendered, section, prefix,
                   status, outcome>>

----------------------------------------------------------------------------
(* Text extraction helpers *)

\* the first key of keys that satisfies P, or "" when none does
FirstKey(keys, P(_)) ==
    IF \E i \in 1..Len(keys) : P(keys[i])
    THEN keys[CHOOSE i \in 1..Len(keys) : P(keys[i]) /\ \A j \in 1..(i - 1) : ~P(keys[j])]
    ELSE ""

RECURSIVE _extract_text(_, _)
RECURSIVE ExtractTexts(_, _)
_extract_text(d, fallback_key) ==
    IF d.ty = "str" THEN d.s
    ELSE IF d.ty = "dict" THEN
        LET IsText(k) == Has(d, k) /\ Get(d, k, JNull).ty = "str"
                         /\ Strip(Get(d, k, JNull).s) # <<>>
            key == FirstKey(<<"text", "summary", "content", "description", "transcription",
                              fallback_key>>, IsText)
        IN IF key # "" THEN Strip(Get(d, key, JNull).s)
           ELSE IF Has(d, "data") THEN _extract_text(Get(d, "data", JNull), fallback_key)
           ELSE IF Has(d, "results") THEN _extract_text(Get(d, "results", JNull), fallback_key)
           ELSE <<>>
    ELSE IF d.ty = "list" THEN Join(ExtractTexts(d.xs, fallback_key), <<NL>>)
    ELSE <<>>
\* lines 435-439: the list `texts`
ExtractTexts(xs, fallback_key) ==
    IF xs = <<>> THEN <<>>
    ELSE LET tx == _extract_text(Head(xs), fallback_key)
         IN (IF tx # <<>> THEN <<tx>> ELSE <<>>) \o ExtractTexts(Tail(xs), fallback_key)

\* line 469: the items of a text split by newlines
RECURSIVE SplitItems(_)
SplitItems(ls) ==
    IF ls = <<>> THEN <<>>
    ELSE (IF Strip(Head(ls)) # <<>>
          THEN <<LStripMarker(LStripMarker(Strip(Head(ls)), "- "), "* ")>>
          ELSE <<>>) \o SplitItems(Tail(ls))

RECURSIVE _extract_list_items(_)
RECURSIVE ExtractItems(_)
_extract_list_items(d) ==
    IF d.ty = "list" THEN ExtractItems(d.xs)
    ELSE IF d.ty = "dict" THEN
        LET IsDictAt(k) == Has(d, k) /\ Get(d, k, JNull).ty = "dict"
            IsListAt(k) == Has(d, k) /\ Get(d, k, JNull).ty = "list"
            nested == FirstKey(<<"actionItems", "keyPoints", "key_points", "action_items">>,
                               IsDictAt)
            listed == FirstKey(<<"content", "items", "data", "results", "action_items",
                                 "actionItems", "key_points", "keyPoints", "points">>, IsListAt)
            tx == _extract_text(d, "text")
        IN IF nested # "" THEN _extract_list_items(Get(d, nested, JNull))
           ELSE IF listed # "" THEN _extract_list_items(Get(d, listed, JNull))
           ELSE IF tx # <<>> THEN SplitItems(Split(tx, <<>>))
           ELSE <<>>
    ELSE <<>>
\* lines 447-455: the list `items`
ExtractItems(xs) ==
    IF xs = <<>> THEN <<>>
    ELSE LET item == Head(xs)
         IN (IF item.ty = "str" /\ Strip(item.s) # <<>> THEN <<Strip(item.s)>>
             ELSE IF item.ty = "dict" /\ _extract_text(item, "text") # <<>>
             THEN <<_extract_text(item, "text")>>
             ELSE <<>>) \o ExtractItems(Tail(xs))

----------------------------------------------------------------------------
(* jiminny_get_summary *)

Suffixes == <<"transcription-summary", "action-items", "key-points">>
path_prefixes == <<"activity/{cid}", "conference/{cid}">>
SummaryPath(sec, pre) == path_prefixes[pre] \o "/" \o Suffixes[sec]

SectionHeader(sec) ==
    CASE sec = 1 -> S("## Summary")
      [] sec = 2 -> S("## Action Items")
      [] sec = 3 -> S("## Key Points")

\* the line of the else branch (lines 374, 391, 408)
NotAvailable(sec) ==
    CASE sec = 1 ->
           S("_Summary not available via API. Use jiminny_get_transcript and ask for a summary in chat._")
      [] sec = 2 -> S("_Action items not available._")
      [] sec = 3 ->
           S("_Key points not available via API. Use jiminny_get_transcript and ask for key points in chat._")

\* the line of the except branch (lines 376, 393, 410)
NotAvailableOnError(sec) ==
    CASE sec = 1 ->
           S("_Summary not available via API. Use jiminny_get_transcript and ask for a summary in chat._")
      [] sec = 2 -> S("_Action items not available._")
      [] sec = 3 -> S("_Key points not available via API._")

\* the line of an empty extraction (lines 372, 389, 406)
NothingFound(sec) ==
    CASE sec = 1 -> S("_No summary available._")
      [] sec = 2 -> S("_No action items found._")
      [] sec = 3 -> S("_No key points found._")

RECURSIVE Bullets(_)
Bullets(items) ==
    IF items = <<>> THEN <<>> ELSE <<S("- ") \o Head(items)>> \o Bullets(Tail(items))

\* lines 370-372, 383-389, 400-406: the lines appended when status == 200 and data
Extracted(sec, d) ==
    IF sec = 1
    THEN LET summary_text == _extract_text(d, "summary")
         IN IF summary_text # <<>> THEN <<summary_text>> ELSE <<NothingFound(1)>>
    ELSE LET items == _extract_list_items(d)
         IN IF items # <<>> THEN Bullets(items) ELSE <<NothingFound(sec)>>

\* Does the section take the branch `status == 200 and data`?
Available(st, d) == st = 200 /\ Truthy(d)

\* SectionLines with the except branches reduced to `pass`
SectionLines_silent(sec, raised, st, d) ==
    (IF raised THEN <<>>
     ELSE IF Available(st, d) THEN Extracted(sec, d)
     ELSE <<NotAvailable(sec)>>)
    \o (IF sec < 3 THEN << <<>> >> ELSE <<>>)

\* lines 369-377, 382-394, 399-410: what the section appends once _try_get has
\* returned (st, d) or has raised
SectionLines(sec, raised, st, d) ==
    (IF raised THEN <<NotAvailableOnError(sec)>>
     ELSE IF Available(st, d) THEN Extracted(sec, d)
     ELSE <<NotAvailable(sec)>>)
    \o (IF sec < 3 THEN << <<>> >> ELSE <<>>)

\* The statuses the summary endpoints answer with besides 200, and their bodies.
SummaryStatuses == {204, 401}

BodyDone == JDict(<<KV("summary", JStr(<<Spaces(2), Dat(71, 4), Spaces(2)>>))>>)
BodyNested ==
    JDict(<<KV("actionItems",
               JDict(<<KV("content",
                          JList(<<JStr(<<Dat(72, 1)>>), JStr(<<Spaces(1), Dat(73, 1)>>),
                                  JDict(<<KV("text", JStr(<<Dat(74, 9)>>))>>), JInt(3)>>))>>))>>)
BodyLong == JDict(<<KV("data", JDict(<<KV("text", JStr(<<Dat(75, 26000)>>))>>))>>)
BodyBullets ==
    JDict(<<KV("content", JStr(<<Lit("- "), Dat(76, 6), NL, Lit("* "), Dat(77, 8), NL,
                                 Spaces(3), NL>>))>>)
BodyEmpty == JDict(<<>>)
SummaryBodies == {BodyDone, BodyNested, BodyLong, BodyBullets, BodyEmpty}

SummaryResponses ==
    {HttpResponse(st, FALSE, JNull) : st \in SummaryStatuses}
    \cup {TimeoutResponse, HttpResponse(200, FALSE, JNull)}
    \cup {HttpResponse(200, TRUE, b) : b \in SummaryBodies}

\* lines 346-353 and 367: `headers = _auth_headers()` stands outside every try
SummaryCall ==
    /\ pc = "summary_call"
    /\ IF _auth_headers.ok
       THEN /\ lines' = <<S("# Conversation Summary"), <<>>, SectionHeader(1)>>
            /\ section' = 1
            /\ prefix' = 1
            /\ pc' = "summary_send"
            /\ UNCHANGED result
       ELSE /\ lines' = <<S("# Conversation Summary"), <<>> >>
            /\ result' = Raised(_auth_headers.exc)
            /\ pc' = "done"
            /\ UNCHANGED <<section, prefix>>
    /\ UNCHANGED <<token, tool, inflight, events, data, segments, names, lookup, auto_names,
                   speaker_counter, prev_speaker, idx, rendered, status, outcome>>

\* May the request of (section, prefix) be sent?
CanSendSummary == pc = "summary_send"

\* lines 358-360, up to the await
SummarySend ==
    /\ CanSendSummary
    /\ inflight' = inflight \cup {SummaryPath(section, prefix)}
    /\ events' = Append(events, Send(SummaryPath(section, prefix)))
    /\ pc' = "summary_wait"
    /\ UNCHANGED <<token, tool, result, data, segments, names, lookup, auto_names,
                   speaker_counter, prev_speaker, lines, idx, rendered, section, prefix,
                   status, outcome>>

\* TriesNextPrefix with every 2xx taken for a success
TriesNextPrefix_2xx(resp, pre) ==
    resp.kind = "http" /\ resp.status \notin 200..299 /\ pre < Len(path_prefixes)

\* Does _try_get go on to the next prefix after this response?
TriesNextPrefix(resp, pre) == resp.kind = "http" /\ resp.status # 200 /\ pre < Len(path_prefixes)

\* lines 360-364 from the response on: how _try_get ends on the response to its
\* last request
TryGetEnd(resp) ==
    IF resp.kind # "http" THEN [raised |-> TRUE, status |-> 0, data |-> JNull]
    ELSE IF resp.status = 200
    THEN IF resp.parse THEN [raised |-> FALSE, status |-> 200, data |-> resp.body]
         ELSE [raised |-> TRUE, status |-> 0, data |-> JNull]
    ELSE [raised |-> FALSE, status |-> resp.status, data |-> JNull]

\* the end of a section: lines 377-380, 394-397, or the return of line 412
SectionEnd(appended) ==
    IF section < 3
    THEN /\ lines' = lines \o appended \o <<SectionHeader(section + 1)>>
         /\ section' = section + 1
         /\ prefix' = 1
         /\ pc' = "summary_send"
         /\ UNCHANGED result
    ELSE /\ lines' = lines \o appended
         /\ result' = Returned(_truncate(Join(lines \o appended, <<NL>>)))
         /\ pc' = "done"
         /\ UNCHANGED <<section, prefix>>

\* lines 360-364 from the response on, and the rest of the section
SummaryRecv ==
    /\ pc = "summary_wait"
    /\ \E resp \in SummaryResponses :
        /\ inflight' = inflight \ {SummaryPath(section, prefix)}
        /\ events' = Append(events, Recv(SummaryPath(section, prefix), resp))
        /\ IF TriesNextPrefix(resp, prefix)
           THEN /\ prefix' = prefix + 1
                /\ pc' = "summary_send"
                /\ UNCHANGED <<result, data, lines, section, status, outcome>>
           ELSE LET end == TryGetEnd(resp)
                IN /\ status' = IF end.raised THEN status ELSE end.status
                   /\ data' = IF end.raised THEN data ELSE end.data
                   /\ outcome' = Append(outcome, end)
                   /\ SectionEnd(SectionLines(section, end.raised, end.status, end.data))
    /\ UNCHANGED <<token, tool, segments, names, lookup, auto_names, speaker_counter,
                   prev_speaker, idx, rendered>>

----------------------------------------------------------------------------
(* The host *)

Init ==
    /\ token \in BOOLEAN
    /\ tool = "none"
    /\ pc = "idle"
    /\ inflight = {}
    /\ events = <<>>
    /\ result = NoResult
    /\ data = JNull
    /\ segments = JNull
    /\ names = <<>>
    /\ lookup = [state |-> "none", resp |-> ConnectFailure]
    /\ auto_names = <<>>
    /\ speaker_counter = 0
    /\ prev_speaker = JNull
    /\ lines = <<>>
    /\ idx = 0
    /\ rendered = <<>>
    /\ section = 0
    /\ prefix = 0
    /\ status = 0
    /\ outcome = <<>>

Invoke ==
    /\ pc = "idle"
    /\ \E t \in {"list", "transcript", "summary"} :
        /\ tool' = t
        /\ pc' = t \o "_call"
    /\ UNCHANGED <<token, inflight, events, result, data, segments, names, lookup,
                   auto_names, speaker_counter, prev_speaker, lines, idx, rendered,
                   section, prefix, status, outcome>>

Next ==
    \/ Invoke
    \/ ListCall
    \/ ListReturn
    \/ TranscriptCall
    \/ TranscriptRecv
    \/ NamesCall
    \/ NamesRecv
    \/ RenderStep
    \/ TranscriptReturn
    \/ SummaryCall
    \/ SummarySend
    \/ SummaryRecv

Spec == Init /\ [][Next]_vars

----------------------------------------------------------------------------
(* Properties *)

Done == pc = "done"

\* the responses received on path
Received(path) == SelectSeq(events, LAMBDA e : e.ev = "recv" /\ e.path = path)
\* Was the request on path answered with status s?
Answered(path, s) == \E i \in 1..Len(events) :
    events[i].ev = "recv" /\ events[i].path = path /\ events[i].status = s

\* C1: each of the three handlers ends by returning a string and never lets an
\* exception escape to the host, whatever the token and the upstream do.
C1_AlwaysReturnsString ==
    /\ result.kind # "raise"
    /\ Done => result.kind = "return"

\* The message fixed for a non-2xx status, as the specification words it.
C2_Message(s) ==
    CASE s = 401 ->
           S("Error: Authentication failed (401). Your token may have expired. Go to Jiminny in your browser, open DevTools > Network tab, refresh the page, and copy the new Bearer token.")
      [] s = 403 -> S("Error: Permission denied (403). You don't have access to this resource.")
      [] s = 404 -> S("Error: Not found (404). Check that the conversation ID is correct.")
      [] s = 429 -> S("Error: Rate limit exceeded (429). Wait a moment and try again.")
      [] OTHER -> S("Error: Jiminny API returned status ") \o S(ToString(s)) \o S(".")

C2_Statuses == (ErrorStatuses \cup SummaryStatuses) \ (200..299)

\* every summary request, on both prefixes of the three sections, was answered with s
C2_SummaryAnsweredAll(s) ==
    /\ tool = "summary"
    /\ \A sec \in 1..3 : \A pre \in 1..2 : Answered(SummaryPath(sec, pre), s)

\* the report whose three sections are the placeholders of the else branches
C2_PlaceholderReport ==
    Join(<<S("# Conversation Summary"), <<>>,
           SectionHeader(1), NotAvailable(1), <<>>,
           SectionHeader(2), NotAvailable(2), <<>>,
           SectionHeader(3), NotAvailable(3)>>, <<NL>>)

\* C2 as claimed: for each of the three tools, a non-2xx answer to the tool's request
\* (for get-summary: to every section request on both prefixes) makes the returned text
\* the message fixed for that status.
C2_StatusMessageEveryTool ==
    Done => \A s \in C2_Statuses :
        (\/ tool = "list" /\ Answered(ListPath, s)
         \/ tool = "transcript" /\ Answered(TranscriptionPath, s)
         \/ C2_SummaryAnsweredAll(s))
        => result = Returned(C2_Message(s))

\* C2 as amended: for list-conversations and get-transcript, a non-2xx answer to the
\* tool's own request makes the returned text the message fixed for that status; in
\* get-summary non-200 answers to every section request give the report with the three
\* "not available" placeholders and no status message.
C2_StatusMessage ==
    Done => \A s \in C2_Statuses :
        /\ (\/ tool = "list" /\ Answered(ListPath, s)
            \/ tool = "transcript" /\ Answered(TranscriptionPath, s))
           => result = Returned(C2_Message(s))
        /\ C2_SummaryAnsweredAll(s)
           => /\ result = Returned(C2_PlaceholderReport)
              /\ result # Returned(C2_Message(s))

C2_Witness ==
    /\ Done /\ tool = "transcript" /\ Answered(TranscriptionPath, 429)
    /\ result = Returned(C2_Message(429))

\* the lines a section must hold after its header, from how its own lookup ended
C3_Body(sec, o) ==
    IF o.raised THEN <<NotAvailableOnError(sec)>>
    ELSE IF o.status # 200 \/ ~Truthy(o.data) THEN <<NotAvailable(sec)>>
    ELSE Extracted(sec, o.data)

C3_Section(sec) ==
    <<SectionHeader(sec)>> \o C3_Body(sec, outcome[sec])
    \o (IF sec < 3 THEN << <<>> >> ELSE <<>>)

\* C3: in the assembled summary report the three sections fail independently: the three
\* headers stand in order, a section whose lookup ended non-200 or raised holds only its
\* placeholder, and every other section holds what its own response alone determines.
C3_SectionsIndependent ==
    (Done /\ tool = "summary" /\ result.kind = "return") =>
        /\ Len(outcome) = 3
        /\ lines = <<S("# Conversation Summary"), <<>> >>
                   \o C3_Section(1) \o C3_Section(2) \o C3_Section(3)
        /\ result.text = _truncate(Join(lines, <<NL>>))

C3_Witness ==
    /\ Done /\ tool = "summary" /\ Len(outcome) = 3
    /\ outcome[2].raised
    /\ ~outcome[1].raised /\ outcome[1].status = 200 /\ Truthy(outcome[1].data)
    /\ ~outcome[3].raised /\ outcome[3].status = 200 /\ Truthy(outcome[3].data)
    /\ lines[4] # NotAvailable(1)
    /\ lines[7] = NotAvailableOnError(2)

\* C4: every string a tool returns is at most the character budget plus the length of
\* the truncation suffix long.
C4_OutputBounded ==
    result.kind = "return" => StrLen(result.text) <= CHARACTER_LIMIT + Len(TRUNCATION_SUFFIX)

\* Has the segment rendered i-th no resolved name?
Unresolved(i) == ~DictHas(names, rendered[i].pid)
\* the ids without a resolved name among the first n rendered segments
UnresolvedPids(n) == {rendered[i].pid : i \in {j \in 1..n : Unresolved(j)}}
FirstSeen(i) == CHOOSE j \in 1..i :
    rendered[j].pid = rendered[i].pid /\ \A k \in 1..(j - 1) : rendered[k].pid # rendered[i].pid
AutoLabel(k) == JStr(S("Speaker ") \o S(ToString(k)))

\* C5: over the segments rendered so far, an id with no resolved name is labelled
\* "Speaker k", k its rank among such ids by first appearance; the label is reused for
\* the same id, never shared by two ids, and the counter is the number of such ids.
C5_AutoLabelsStable ==
    (tool = "transcript" /\ pc \in {"render", "done"}) =>
        /\ speaker_counter = Cardinality(UnresolvedPids(Len(rendered)))
        /\ Len(auto_names) = speaker_counter
        /\ \A i \in 1..Len(rendered) : Unresolved(i) =>
               rendered[i].speaker = AutoLabel(Cardinality(UnresolvedPids(FirstSeen(i))))
        /\ \A i, j \in 1..Len(rendered) : (Unresolved(i) /\ Unresolved(j)) =>
               (rendered[i].speaker = rendered[j].speaker <=> rendered[i].pid = rendered[j].pid)

C5_Witness ==
    /\ tool = "transcript" /\ names = <<>> /\ Len(rendered) = 4
    /\ <<rendered[1].pid, rendered[2].pid, rendered[3].pid, rendered[4].pid>>
         = <<PidA, PidA, PidB, PidA>>
    /\ <<rendered[1].speaker, rendered[2].speaker, rendered[3].speaker, rendered[4].speaker>>
         = <<AutoLabel(1), AutoLabel(1), AutoLabel(2), AutoLabel(1)>>
    /\ speaker_counter = 2

\* Is this line of `lines` a speaker header?
IsHeader(line) == Len(line) >= 2 /\ line[1] = NL /\ line[2] = Lit("**")

\* the number of maximal runs of equal speakers
RECURSIVE Runs(_)
Runs(r) ==
    IF r = <<>> THEN 0
    ELSE IF Len(r) = 1 THEN 1
    ELSE Runs(Tail(r)) + (IF r[1].speaker # r[2].speaker THEN 1 ELSE 0)

\* C6: while the segments are rendered, the line of a rendered segment is a speaker
\* header exactly when it is the first or its speaker differs from the one rendered
\* before it, and otherwise the bare text; so the headers number the maximal runs of
\* equal speakers.
C6_HeaderPerRun ==
    (tool = "transcript" /\ pc = "render") =>
        /\ Len(lines) = 2 + Len(rendered)
        /\ \A i \in 1..Len(rendered) :
             /\ IsHeader(lines[2 + i])
                  <=> (i = 1 \/ rendered[i].speaker # rendered[i - 1].speaker)
             /\ ~IsHeader(lines[2 + i]) => lines[2 + i] = rendered[i].text
        /\ Cardinality({i \in 1..Len(rendered) : IsHeader(lines[2 + i])}) = Runs(rendered)

C6_Witness ==
    /\ tool = "transcript" /\ pc = "render" /\ Len(rendered) >= 3
    /\ rendered[1].speaker = rendered[2].speaker
    /\ rendered[3].speaker # rendered[2].speaker
    /\ IsHeader(lines[3]) /\ ~IsHeader(lines[4]) /\ IsHeader(lines[5])

\* the traffic of one section of the summary, in order
SectionEvents(sec) ==
    SelectSeq(events, LAMBDA e : e.path \in {SummaryPath(sec, 1), SummaryPath(sec, 2)})
\* the line a section holds right after its header
SectionFirstLine(sec) ==
    lines[(CHOOSE i \in 1..Len(lines) : lines[i] = SectionHeader(sec)) + 1]
\* Did the section take the branch that extracts its content?
TreatedAvailable(sec) ==
    SectionFirstLine(sec) \notin {NotAvailable(sec), NotAvailableOnError(sec)}

\* the order of the requests of a finished section
C7_Order(sec) ==
    LET ev == SectionEvents(sec)
    IN /\ Len(ev) \in {2, 4}
       /\ ev[1] = Send(SummaryPath(sec, 1))
       /\ ev[2].ev = "recv" /\ ev[2].path = SummaryPath(sec, 1)
       /\ Len(ev) = 4 <=> ev[2].status \notin {0, 200}
       /\ Len(ev) = 4 =>
            /\ ev[3] = Send(SummaryPath(sec, 2))
            /\ ev[4].ev = "recv" /\ ev[4].path = SummaryPath(sec, 2)

\* C7 as claimed: for each section the activity request goes first, the conference
\* request is sent exactly when the activity request completed with a status other than
\* 200, nothing is sent after a 200, and the section is treated as available exactly
\* when one of the two prefixes returned 200.
C7_AvailableIff200 ==
    \A sec \in 1..Len(outcome) :
        /\ C7_Order(sec)
        /\ TreatedAvailable(sec)
             <=> \E i \in 1..Len(SectionEvents(sec)) : SectionEvents(sec)[i].status = 200

\* C7 as amended: the same order of requests, and the section is treated as available
\* exactly when one of the two prefixes returned 200 with a body that parses as JSON
\* and is truthy (not empty).
C7_AvailableIff200WithData ==
    \A sec \in 1..Len(outcome) :
        /\ C7_Order(sec)
        /\ TreatedAvailable(sec)
             <=> \E i \in 1..Len(SectionEvents(sec)) :
                    /\ SectionEvents(sec)[i].status = 200
                    /\ SectionEvents(sec)[i].parse
                    /\ SectionEvents(sec)[i].truthy

C7_Witness ==
    /\ Len(outcome) >= 1
    /\ Len(SectionEvents(1)) = 4
    /\ SectionEvents(1)[2].status = 401
    /\ SectionEvents(1)[4].status = 200
    /\ TreatedAvailable(1)

\* The transcript of lines 279-318 for a list of segments and a mapping of names.
RECURSIVE RenderAll(_, _, _)
RenderAll(segs, nm, st) ==
    IF segs = <<>> THEN Ok(st)
    ELSE LET step == RenderSegment(Head(segs), nm, st)
         IN IF step.ok THEN RenderAll(Tail(segs), nm, step.val) ELSE step
ExpectedTranscript(segs, nm) ==
    LET r == RenderAll(segs, nm,
                       [auto_names |-> <<>>, speaker_counter |-> 0, prev_speaker |-> JNull,
                        lines |-> <<S("# Transcript"), <<>> >>, rendered |-> <<>>])
    IN IF ~r.ok THEN _handle_error(r.exc)
       ELSE LET f == WithParticipants(r.val.lines, nm, r.val.auto_names)
            IN IF f.ok THEN _truncate(Join(f.val, <<NL>>)) ELSE _handle_error(f.exc)

\* Did the lookup fail before any participant entry was read: no response, a non-2xx
\* status, a body that is not JSON, or JSON that is neither a list nor an object?
FailedBeforeEntries(resp) ==
    \/ resp.kind # "http"
    \/ resp.status \notin 200..299
    \/ ~resp.parse
    \/ resp.body.ty \notin {"list", "dict"}

\* C8 as claimed: once the transcription is fetched with a non-empty segment list, a
\* failed participant lookup leaves the result exactly the transcript rendered with no
\* resolved names.
C8_FailedLookupRendersNoNames ==
    (tool = "transcript" /\ Done /\ lookup.state = "raised") =>
        result = Returned(ExpectedTranscript(segments.xs, <<>>))

\* C8 as amended: a failed participant lookup never ends the handler; it yields the
\* names stored before the failure (none when the request, its status or its decoding
\* failed) and the result is exactly the transcript rendered with those names, so with
\* every speaker auto-labelled when there are none.
C8_FailedLookupSwallowed ==
    (tool = "transcript" /\ lookup.state = "raised") =>
        /\ FailedBeforeEntries(lookup.resp) => names = <<>>
        /\ Done => result = Returned(ExpectedTranscript(segments.xs, names))
        /\ (Done /\ names = <<>>) =>
               /\ result = Returned(ExpectedTranscript(segments.xs, <<>>))
               /\ \A i \in 1..Len(rendered) :
                    \E k \in 1..speaker_counter : rendered[i].speaker = AutoLabel(k)

C8_Witness ==
    /\ tool = "transcript" /\ Done /\ lookup.state = "raised"
    /\ lookup.resp.status = 404
    /\ names = <<>> /\ Len(rendered) >= 2
    /\ result = Returned(ExpectedTranscript(segments.xs, <<>>))

\* the section a summary path belongs to, 0 for any other path
SectionOf(path) ==
    IF \E sec \in 1..3 : path \in {SummaryPath(sec, 1), SummaryPath(sec, 2)}
    THEN CHOOSE sec \in 1..3 : path \in {SummaryPath(sec, 1), SummaryPath(sec, 2)}
    ELSE 0

\* C9: within one invocation at most one request is in flight; every request is sent
\* after the response to the one before it; the participants request follows a
\* transcription response that gave a non-empty segment list; and the requests of the
\* summary sections come in the order of the sections.
C9_Sequential ==
    /\ Cardinality(inflight) <= 1
    /\ \A i \in 1..Len(events) :
         /\ events[i].ev = (IF i % 2 = 1 THEN "send" ELSE "recv")
         /\ i % 2 = 0 => events[i].path = events[i - 1].path
    /\ Cardinality(inflight) = Len(events) % 2
    /\ \A i \in 1..Len(events) :
         (events[i].ev = "send" /\ events[i].path = ParticipantsPath) =>
             /\ i = 3
             /\ events[2].path = TranscriptionPath /\ events[2].status = 200
             /\ segments.ty = "list" /\ segments.xs # <<>>
    /\ \A i, j \in 1..Len(events) :
         i < j => SectionOf(events[i].path) <= SectionOf(events[j].path)

C9_Witness ==
    /\ tool = "transcript" /\ pc = "render"
    /\ Len(events) = 4 /\ events[3] = Send(ParticipantsPath)

\* M:SS of an offset held in tenths of a second
C10_MSS(t) ==
    LET offset == t \div 10
    IN S(ToString(offset \div 60)) \o S(":")
       \o S(IF offset % 60 < 10 THEN "0" ELSE "") \o S(ToString(offset % 60))

\* C10: the timestamp of a speaker header is the segment's start offset as M:SS, for
\* every offset from 0 on, a segment with no start field or the offset 0 giving 0:00.
C10_TimestampIsMSS ==
    (tool = "transcript" /\ pc = "render") =>
        \A i \in 1..Len(rendered) :
            (IsHeader(lines[2 + i]) /\ rendered[i].start.ty = "num") =>
                lines[2 + i] = HeaderLine(rendered[i].speaker, C10_MSS(rendered[i].start.t),
                                          rendered[i].text)

====
